---- MODULE Spec2Model ----
(***************************************************************************)
(* Model of @arke-institute/ai-fallback: createFallbackModel and its       *)
(* executeWithFallback control loop (src/src/fallback-model.ts), the       *)
(* default error classifier (error-classifier.ts), the backoff calculator  *)
(* and the cancellable sleep (utils.ts) and AllModelsExhaustedError        *)
(* (src/src/errors.ts).                                                    *)
(*                                                                         *)
(* One invocation of doGenerate/doStream is a sequence of synchronous      *)
(* segments separated by its two suspension points: awaiting the backend   *)
(* operation and awaiting the backoff sleep.  Each action below is one     *)
(* such segment, run to the next suspension point or to the throw/return   *)
(* that ends the invocation.                                               *)
(***************************************************************************)
EXTENDS Integers, Sequences, FiniteSets, TLC

\* ------------------------------------------------------------------ bounds
\* Longest chain of models the constructor is given.
MaxModels == 3
\* Largest maxRetriesPerModel the constructor is given.
MaxRetries == 1
\* Most backend calls one invocation can make under a configuration that is
\* explored: numModels * (maxRetriesPerModel + 1) <= MaxCalls.
MaxCalls == 6
\* The same for the configurations explored where the other inputs are many:
\* two concurrent invocations, or the wide sets of failures and of delays.
MaxCallsSmall == 2
\* Largest maxRetriesPerModel where the backoff delays are explored.
MaxBackoffRetries == 3
\* Math.random() is drawn from {0/RandomDen, ..., (RandomDen-1)/RandomDen}.
RandomDen == 4

\* ------------------------------------------------------- program constants
DefaultBaseDelayMs == 1000
DefaultMaxDelayMs == 30000

\* The invocations of the composite model that are in the model, and the
\* one that runs when invocations are not concurrent.
Invocations == {1, 2}
Single == {1}

\* --------------------------------------------------------- failure values
\* statusCode of an APICallError that carries none (undefined).
NoStatus == -1

\* What defaultShouldRetry reads of a thrown value: its class, statusCode,
\* isRetryable and whether its message includes 'fetch'.
APICallError(status, retryable) ==
    [type |-> "APICallError", statusCode |-> status,
     isRetryable |-> retryable, fetch |-> FALSE]

TypeErrorValue(msgHasFetch) ==
    [type |-> "TypeError", statusCode |-> NoStatus,
     isRetryable |-> FALSE, fetch |-> msgHasFetch]

\* The failures the mock backends of the manual test throw ('429', '500',
\* 'network-error'), and the 401 client fault.
RateLimited == APICallError(429, TRUE)
ServerError == APICallError(500, TRUE)
Unauthorized == APICallError(401, FALSE)
FetchFailed == TypeErrorValue(TRUE)

BackendFailures == {RateLimited, ServerError, Unauthorized, FetchFailed}

\* A thrown value that is neither an APICallError nor a TypeError.
OtherError ==
    [type |-> "Error", statusCode |-> NoStatus, isRetryable |-> FALSE, fetch |-> FALSE]

\* Status codes around every threshold the classifier compares with.
Statuses == {NoStatus, 399, 400, 404, 428, 429, 430, 499, 500, 503, 599, 600}

\* Every combination of the fields the classifier reads.
ClassifierFailures ==
    {APICallError(st, fl) : st \in Statuses, fl \in BOOLEAN}
        \cup {TypeErrorValue(f) : f \in BOOLEAN} \cup {OtherError}

\* ------------------------------------------------------- error classifier
\* Faulty variant: the isRetryable flag is consulted before the status code.
defaultShouldRetry_FlagFirst(error) ==
    IF error.type = "APICallError"
    THEN IF error.isRetryable THEN "retry"
         ELSE IF error.statusCode = 429 THEN "fallback"
         ELSE IF error.statusCode # NoStatus /\ error.statusCode >= 500 THEN "retry"
         ELSE "throw"
    ELSE IF error.type = "TypeError" /\ error.fetch THEN "retry"
    ELSE "throw"

\* Faulty variant: the isRetryable flag is never consulted.
defaultShouldRetry_NoFlag(error) ==
    IF error.type = "APICallError"
    THEN IF error.statusCode = 429 THEN "fallback"
         ELSE IF error.statusCode # NoStatus /\ error.statusCode >= 500 THEN "retry"
         ELSE "throw"
    ELSE IF error.type = "TypeError" /\ error.fetch THEN "retry"
    ELSE "throw"

defaultShouldRetry(error) ==
    IF error.type = "APICallError"
    THEN IF error.statusCode = 429 THEN "fallback"
         ELSE IF error.statusCode # NoStatus /\ error.statusCode >= 500 THEN "retry"
         ELSE IF error.isRetryable THEN "retry"
         ELSE "throw"
    ELSE IF error.type = "TypeError" /\ error.fetch THEN "retry"
    ELSE "throw"

\* ------------------------------------------------------ backoff calculator
Min(a, b) == IF a <= b THEN a ELSE b

RECURSIVE Pow2(_)
Pow2(n) == IF n <= 0 THEN 1 ELSE 2 * Pow2(n - 1)

\* Faulty variant: the exponential is not capped by maxDelayMs.
calculateDelay_Uncapped(attempt, baseDelayMs, maxDelayMs, random) ==
    LET exponential == baseDelayMs * Pow2(attempt)
    IN  (exponential * (RandomDen + random) + RandomDen) \div (2 * RandomDen)

\* calculateDelay with Math.random() = random / RandomDen:
\* jitter = 0.5 + random/RandomDen * 0.5 = (RandomDen + random) / (2 RandomDen)
\* and Math.round(x) = floor(x + 1/2).
calculateDelay(attempt, baseDelayMs, maxDelayMs, random) ==
    LET exponential == Min(maxDelayMs, baseDelayMs * Pow2(attempt))
    IN  (exponential * (RandomDen + random) + RandomDen) \div (2 * RandomDen)

\* The draws of Math.random() the retry loop is run with: the two ends.
Randoms == {0, RandomDen - 1}

\* Values of baseDelayMs and maxDelayMs the constructor is given: the
\* defaults, small ones that make the cap bind at different attempts, zero
\* and negative ones (the constructor checks neither).
BaseDelays == {-3, 0, 1, 3, DefaultBaseDelayMs}
MaxDelays == {-2, 0, 5, DefaultMaxDelayMs}

\* ------------------------------------------------------------------ state
VARIABLES
    created,             \* "new" | "ready" | "error": createFallbackModel's outcome
    numModels,           \* models.length; model k of the chain is index k
    maxRetriesPerModel,  \* config.maxRetriesPerModel
    baseDelayMs,         \* config.baseDelayMs
    maxDelayMs,          \* config.maxDelayMs
    abortSignal,         \* per invocation: options.abortSignal [aborted, reason]
    abortedAtCall,       \* per invocation: abortSignal.aborted when the call was made
    operation,           \* per invocation: "none" | "doGenerate" | "doStream"
    pc,                  \* per invocation: "idle" | "awaiting" | "sleeping" | "done"
    modelIndex,          \* per invocation: outer loop variable
    attempt,             \* per invocation: inner loop variable
    errors,              \* per invocation: the accumulated {model, error} list
    events,              \* per invocation: the observer calls made, in order
    calls,               \* per invocation: the backend operations invoked, in order
    outcome,             \* per invocation: what the call returned or threw
    sleepState           \* per invocation: the timers pending and abort listeners
                         \* registered by sleep, and how its last promise settled

vars == <<created, numModels, maxRetriesPerModel, baseDelayMs, maxDelayMs,
          abortSignal, abortedAtCall, operation, pc, modelIndex, attempt, errors,
          events, calls, outcome, sleepState>>

config == <<created, numModels, maxRetriesPerModel, baseDelayMs, maxDelayMs>>

\* No sleep has been called: nothing armed, nothing registered, no promise.
NoSleep == [timers |-> 0, listeners |-> 0, settles |-> 0, result |-> "none"]

NoOutcome == [kind |-> "none"]

Init ==
    /\ created = "new"
    /\ numModels = 0
    /\ maxRetriesPerModel = 0
    /\ baseDelayMs = DefaultBaseDelayMs
    /\ maxDelayMs = DefaultMaxDelayMs
    /\ abortSignal = [c \in Invocations |-> [aborted |-> FALSE, reason |-> "undefined"]]
    /\ abortedAtCall = [c \in Invocations |-> FALSE]
    /\ operation = [c \in Invocations |-> "none"]
    /\ pc = [c \in Invocations |-> "idle"]
    /\ modelIndex = [c \in Invocations |-> 0]
    /\ attempt = [c \in Invocations |-> 0]
    /\ errors = [c \in Invocations |-> <<>>]
    /\ events = [c \in Invocations |-> <<>>]
    /\ calls = [c \in Invocations |-> <<>>]
    /\ outcome = [c \in Invocations |-> NoOutcome]
    /\ sleepState = [c \in Invocations |-> NoSleep]

\* ---------------------------------------------------------------- helpers
Set(f, c, x) == [f EXCEPT ![c] = x]

\* The value a backend operation rejects with: what the classifier reads of
\* it, and in which invocation which call of which backend threw it (its
\* identity).
Failure(c, e, mi, n) ==
    [type |-> e.type, statusCode |-> e.statusCode, isRetryable |-> e.isRetryable,
     fetch |-> e.fetch, invocation |-> c, thrownBy |-> mi, call |-> n]

\* The reasons an abort is given; "undefined" is abort with no reason set.
Reasons == {"undefined", "timeout"}

\* options.abortSignal.reason ?? new DOMException('Aborted', 'AbortError')
AbortReason(signal) ==
    IF signal.reason # "undefined" THEN signal.reason ELSE "AbortError"

\* new AllModelsExhaustedError(errors): keeps the list, and renders one
\* summary line "[i] provider/modelId: message" per entry.
AllModelsExhaustedError(errs) ==
    [kind |-> "AllModelsExhaustedError",
     errors |-> errs,
     summary |-> [k \in 1..Len(errs) |-> <<k - 1, errs[k].model, errs[k].error.call>>]]

\* Faulty variant: the primary model's result is reported.
Returned_Primary(mi, op) == [kind |-> "result", model |-> 0, operation |-> op]

Returned(mi, op) == [kind |-> "result", model |-> mi, operation |-> op]
ThrownRaw(error) == [kind |-> "error", error |-> error]
ThrownAbort(signal) == [kind |-> "abort", reason |-> AbortReason(signal)]

\* Faulty variant: unshift instead of push.
Record_Unshift(errs, mi, error) == <<[model |-> mi, error |-> error]>> \o errs

\* errors.push({ model, error })
Record(errs, mi, error) == Append(errs, [model |-> mi, error |-> error])

\* Faulty variant: the fatal branch is never taken.
IsFatal_Never(classification) == FALSE

\* classification.action === 'throw'
IsFatal(classification) == classification = "throw"

\* Faulty variant: the classification is not consulted.
RetrySameModel_AnyAction(classification, at) == at < maxRetriesPerModel

\* Faulty variant: off by one in the retry budget.
RetrySameModel_OffByOne(classification, at) ==
    classification = "retry" /\ at <= maxRetriesPerModel

\* classification.action === 'retry' && attempt < maxRetriesPerModel
RetrySameModel(classification, at) ==
    classification = "retry" /\ at < maxRetriesPerModel

\* modelIndex < models.length - 1
HasNextModel(mi) == mi < numModels - 1

\* Faulty variant: the advance skips a backend.
NextModel_Skips(mi) == mi + 2

\* modelIndex++ of the outer loop, reached when the inner loop ends.
NextModel(mi) == mi + 1

\* Faulty variant: onError is called after the fatal check, not before it.
OnError_AfterFatalCheck(evs, mi, error, classification) ==
    IF classification = "throw"
    THEN evs
    ELSE Append(evs, [type |-> "error", modelIndex |-> mi, model |-> mi,
                      error |-> error, classification |-> classification])

\* onError?.({ modelIndex, model, error, classification })
OnError(evs, mi, error, classification) ==
    Append(evs, [type |-> "error", modelIndex |-> mi, model |-> mi,
                 error |-> error, classification |-> classification])

\* sleep(ms, signal) up to the promise it returns: rejected at once, with no
\* timer armed, when the signal is already aborted; else a timer is armed and
\* an abort listener registered.
SleepCall(st, aborted) ==
    IF aborted
    THEN [timers |-> st.timers, listeners |-> st.listeners,
          settles |-> 1, result |-> "rejected"]
    ELSE [timers |-> st.timers + 1, listeners |-> st.listeners + 1,
          settles |-> 0, result |-> "pending"]

\* Faulty variant: the timer callback resolves without removing the listener.
TimerFired_KeepsListener(st) ==
    [timers |-> st.timers - 1, listeners |-> st.listeners,
     settles |-> st.settles + 1,
     result |-> IF st.settles = 0 THEN "resolved" ELSE st.result]

\* sleep's timer callback: signal?.removeEventListener('abort', onAbort); resolve()
TimerFired(st) ==
    [timers |-> st.timers - 1, listeners |-> st.listeners - 1,
     settles |-> st.settles + 1,
     result |-> IF st.settles = 0 THEN "resolved" ELSE st.result]

\* sleep's onAbort: clearTimeout(timer); reject(...); the listener was added
\* with { once: true } and is removed by its own dispatch.
OnAbort(st) ==
    [timers |-> st.timers - 1, listeners |-> st.listeners - 1,
     settles |-> st.settles + 1,
     result |-> IF st.settles = 0 THEN "rejected" ELSE st.result]

\* Faulty variant: the outer loop's test is off by one
\* (modelIndex <= models.length).
RECURSIVE NextIteration_OffByOne(_, _)
NextIteration_OffByOne(mi, at) ==
    IF mi > numModels THEN [end |-> TRUE, modelIndex |-> mi, attempt |-> at]
    ELSE IF at <= maxRetriesPerModel
         THEN [end |-> FALSE, modelIndex |-> mi, attempt |-> at]
         ELSE NextIteration_OffByOne(NextModel(mi), 0)

\* The two for-loop heads: the iteration whose body runs next when control
\* arrives at the inner loop's test with (modelIndex, attempt), or the end
\* of the outer loop.
RECURSIVE NextIteration(_, _)
NextIteration(mi, at) ==
    IF mi >= numModels THEN [end |-> TRUE, modelIndex |-> mi, attempt |-> at]
    ELSE IF at <= maxRetriesPerModel
         THEN [end |-> FALSE, modelIndex |-> mi, attempt |-> at]
         ELSE NextIteration(NextModel(mi), 0)

\* The loop from the inner loop's test at (mi, at) up to the next suspension
\* point: the throw after the loops, the abort check, or the call of the
\* backend operation, whose completion is then awaited.
Enter(c, op, mi, at, errs, evs) ==
    LET it == NextIteration(mi, at)
    IN  /\ modelIndex' = Set(modelIndex, c, it.modelIndex)
        /\ attempt' = Set(attempt, c, it.attempt)
        /\ errors' = Set(errors, c, errs)
        /\ events' = Set(events, c, evs)
        /\ IF it.end
           THEN /\ outcome' = Set(outcome, c, AllModelsExhaustedError(errs))
                /\ pc' = Set(pc, c, "done")
                /\ calls' = calls
           ELSE IF abortSignal[c].aborted
           THEN /\ outcome' = Set(outcome, c, ThrownAbort(abortSignal[c]))
                /\ pc' = Set(pc, c, "done")
                /\ calls' = calls
           ELSE /\ calls' = Set(calls, c, Append(calls[c],
                       [model |-> it.modelIndex, attempt |-> it.attempt, operation |-> op]))
                /\ pc' = Set(pc, c, "awaiting")
                /\ outcome' = outcome

\* ---------------------------------------------------------------- actions
\* createFallbackModel(config): throws on an empty chain, validates nothing else.
CreateFallbackModel(n, r, base, cap) ==
    /\ created = "new"
    /\ created' = IF n = 0 THEN "error" ELSE "ready"
    /\ numModels' = n
    /\ maxRetriesPerModel' = r
    /\ baseDelayMs' = base
    /\ maxDelayMs' = cap
    /\ UNCHANGED <<abortSignal, abortedAtCall, operation, pc, modelIndex, attempt,
                   errors, events, calls, outcome, sleepState>>

\* Faulty variant: the errors list is created once per composite model, not
\* once per call, so a call starts from what another call has accumulated.
executeWithFallback_SharedErrors(c, op) ==
    /\ operation' = Set(operation, c, op)
    /\ abortedAtCall' = Set(abortedAtCall, c, abortSignal[c].aborted)
    /\ Enter(c, op, 0, 0, errors[CHOOSE d \in Invocations : d # c], <<>>)
    /\ UNCHANGED <<config, abortSignal, sleepState>>

\* executeWithFallback from its first line to the first suspension point.
executeWithFallback(c, op) ==
    /\ operation' = Set(operation, c, op)
    /\ abortedAtCall' = Set(abortedAtCall, c, abortSignal[c].aborted)
    /\ Enter(c, op, 0, 0, <<>>, <<>>)
    /\ UNCHANGED <<config, abortSignal, sleepState>>

\* model.doGenerate(options) of the composite model.
doGenerate(c) ==
    /\ created = "ready"
    /\ pc[c] = "idle"
    /\ executeWithFallback(c, "doGenerate")

\* model.doStream(options) of the composite model.
doStream(c) ==
    /\ created = "ready"
    /\ pc[c] = "idle"
    /\ executeWithFallback(c, "doStream")

\* The caller aborts the signal before the call or while the backend
\* operation is in flight: nothing of the invocation runs, and an abort
\* listener of sleep, were one still registered, is dispatched.
Abort(c, reason) ==
    /\ created = "ready"
    /\ pc[c] \in {"idle", "awaiting"}
    /\ ~abortSignal[c].aborted
    /\ abortSignal' = Set(abortSignal, c, [aborted |-> TRUE, reason |-> reason])
    /\ sleepState' = IF sleepState[c].listeners > 0
                     THEN Set(sleepState, c, OnAbort(sleepState[c]))
                     ELSE sleepState
    /\ UNCHANGED <<config, abortedAtCall, operation, pc, modelIndex, attempt,
                   errors, events, calls, outcome>>

\* The caller aborts the signal during the backoff sleep: sleep's onAbort
\* clears the timer and rejects, and the rejection leaves the catch block.
AbortDuringSleep(c, reason) ==
    /\ pc[c] = "sleeping"
    /\ ~abortSignal[c].aborted
    /\ abortSignal' = Set(abortSignal, c, [aborted |-> TRUE, reason |-> reason])
    /\ sleepState' = Set(sleepState, c, OnAbort(sleepState[c]))
    /\ outcome' = Set(outcome, c, ThrownAbort(abortSignal'[c]))
    /\ pc' = Set(pc, c, "done")
    /\ UNCHANGED <<config, abortedAtCall, operation, modelIndex, attempt,
                   errors, events, calls>>

\* return await operation(model): the backend operation resolves.
OperationResolves(c) ==
    /\ pc[c] = "awaiting"
    /\ outcome' = Set(outcome, c, Returned(modelIndex[c], operation[c]))
    /\ pc' = Set(pc, c, "done")
    /\ UNCHANGED <<config, abortSignal, abortedAtCall, operation, modelIndex, attempt,
                   errors, events, calls, sleepState>>

\* The backend operation rejects with e: the catch block, then the loop up
\* to the next suspension point.
OperationRejects(c, e, random) ==
    /\ pc[c] = "awaiting"
    /\ LET mi == modelIndex[c]
           at == attempt[c]
           error == Failure(c, e, mi, Len(calls[c]))
           classification == defaultShouldRetry(error)
           evs1 == OnError(events[c], mi, error, classification)
           errs1 == Record(errors[c], mi, error)
           delay == calculateDelay(at, baseDelayMs, maxDelayMs, random)
           evsRetry == Append(evs1,
                     [type |-> "retry", modelIndex |-> mi, model |-> mi,
                      attempt |-> at + 1, maxRetries |-> maxRetriesPerModel,
                      error |-> error, delayMs |-> delay])
           evsNext == IF HasNextModel(mi)
                      THEN Append(evs1,
                             [type |-> "fallback", failedModelIndex |-> mi,
                              failedModel |-> mi, nextModelIndex |-> mi + 1,
                              nextModel |-> mi + 1, error |-> error,
                              totalAttempts |-> at + 1])
                      ELSE evs1
       IN  IF IsFatal(classification)
           THEN /\ events' = Set(events, c, evs1)
                /\ outcome' = Set(outcome, c, ThrownRaw(error))
                /\ pc' = Set(pc, c, "done")
                /\ UNCHANGED <<modelIndex, attempt, errors, calls, sleepState>>
           ELSE IF RetrySameModel(classification, at)
           THEN /\ events' = Set(events, c, evsRetry)
                /\ errors' = Set(errors, c, errs1)
                /\ sleepState' =
                       Set(sleepState, c, SleepCall(sleepState[c], abortSignal[c].aborted))
                /\ IF abortSignal[c].aborted
                   THEN \* sleep(delay, signal) rejects at once
                        /\ outcome' = Set(outcome, c, ThrownAbort(abortSignal[c]))
                        /\ pc' = Set(pc, c, "done")
                   ELSE /\ pc' = Set(pc, c, "sleeping")
                        /\ outcome' = outcome
                /\ UNCHANGED <<modelIndex, attempt, calls>>
           ELSE /\ Enter(c, operation[c], NextModel(mi), 0, errs1, evsNext)
                /\ sleepState' = sleepState
    /\ UNCHANGED <<config, abortSignal, abortedAtCall, operation>>

\* The backoff timer fires: sleep resolves, `continue` runs attempt++ and
\* the loop goes on to the next attempt.
SleepResolves(c) ==
    /\ pc[c] = "sleeping"
    /\ sleepState' = Set(sleepState, c, TimerFired(sleepState[c]))
    /\ Enter(c, operation[c], modelIndex[c], attempt[c] + 1, errors[c], events[c])
    /\ UNCHANGED <<config, abortSignal, abortedAtCall, operation>>

\* The configurations createFallbackModel is given: a chain length,
\* including the empty chain it rejects, and a maxRetriesPerModel, including
\* a negative one, which it does not reject; the delays are the defaults.
Configurations ==
    {cfg \in (0..MaxModels) \X (-1..MaxRetries) \X {DefaultBaseDelayMs}
                            \X {DefaultMaxDelayMs} :
        cfg[1] * (cfg[2] + 1) <= MaxCalls}

\* The steps of the invocations invs of a composite model built from one of
\* the configurations cfgs, with backends that fail with one of failures and
\* Math.random() drawn from randoms.
Step(invs, cfgs, failures, randoms) ==
    \/ \E cfg \in cfgs : CreateFallbackModel(cfg[1], cfg[2], cfg[3], cfg[4])
    \/ \E c \in invs : doGenerate(c)
    \/ \E c \in invs : doStream(c)
    \/ \E c \in invs, reason \in Reasons : Abort(c, reason)
    \/ \E c \in invs, reason \in Reasons : AbortDuringSleep(c, reason)
    \/ \E c \in invs : OperationResolves(c)
    \/ \E c \in invs, e \in failures, random \in randoms :
          OperationRejects(c, e, random)
    \/ \E c \in invs : SleepResolves(c)

Next == Step(Single, Configurations, BackendFailures, Randoms)

Spec == Init /\ [][Next]_vars

\* The awaited backend operation completes, with a result or a failure.
OperationCompletes(c) ==
    \/ OperationResolves(c)
    \/ \E e \in BackendFailures, random \in Randoms : OperationRejects(c, e, random)

\* The backoff sleep settles: its timer fires or an abort rejects it.
SleepSettles(c) ==
    \/ SleepResolves(c)
    \/ \E reason \in Reasons : AbortDuringSleep(c, reason)

\* Spec where every backend operation eventually completes and every backoff
\* sleep eventually settles.
SpecLive ==
    /\ Spec
    /\ \A c \in Single : WF_vars(OperationCompletes(c)) /\ WF_vars(SleepSettles(c))

\* The configurations that make at most MaxCallsSmall backend calls.
SmallConfigurations ==
    {cfg \in Configurations : cfg[1] * (cfg[2] + 1) <= MaxCallsSmall}

\* Two invocations of the same composite model, their steps interleaved in
\* every order.
NextConcurrent == Step(Invocations, SmallConfigurations, BackendFailures, Randoms)

SpecConcurrent == Init /\ [][NextConcurrent]_vars

\* One backend retried up to MaxBackoffRetries times under every pair of
\* delays.
BackoffConfigurations == {1} \X (0..MaxBackoffRetries) \X BaseDelays \X MaxDelays

NextBackoff == Step(Single, BackoffConfigurations, BackendFailures, Randoms)

SpecBackoff == Init /\ [][NextBackoff]_vars

\* One invocation whose backends reject with every kind of failure.
NextClassifier == Step(Single, SmallConfigurations, ClassifierFailures, Randoms)

SpecClassifier == Init /\ [][NextClassifier]_vars

\* ================================================================ properties
\* Positions of an invocation's event log and call log.
EventIdx(c) == 1..Len(events[c])
CallIdx(c) == 1..Len(calls[c])

IsErrorEvent(ev, classification) ==
    ev.type = "error" /\ ev.classification = classification

\* The events of invocation c of the given type that carry the given failure.
EventsFor(c, type, error) ==
    {j \in EventIdx(c) : events[c][j].type = type /\ events[c][j].error = error}

FallbacksFrom(c, mi) ==
    {j \in EventIdx(c) :
        events[c][j].type = "fallback" /\ events[c][j].failedModelIndex = mi}

\* The backend call that threw the failure, and the attempt it was.
AttemptOf(c, error) == calls[c][error.call].attempt

\* ---------------------------------------------------------------------- C1
\* C1: a failure classified Throw ends the invocation at once with that same
\* failure, unwrapped: its Error event is the last event (no Retry, no
\* Fallback after it), the failing call is the last backend call, and the
\* outcome is exactly that failure, whatever the index and the budget left.
C1_ThrowPropagatesRaw ==
    \A c \in Invocations :
        /\ \A k \in EventIdx(c) :
              IsErrorEvent(events[c][k], "throw") =>
                  /\ k = Len(events[c])
                  /\ pc[c] = "done"
                  /\ outcome[c] = ThrownRaw(events[c][k].error)
                  /\ events[c][k].error.call = Len(calls[c])
                  /\ events[c][k].error.thrownBy = calls[c][Len(calls[c])].model
        /\ outcome[c].kind = "error" =>
              /\ events[c] # <<>>
              /\ IsErrorEvent(events[c][Len(events[c])], "throw")
              /\ events[c][Len(events[c])].error = outcome[c].error

\* A Throw failure on a retried attempt of a backend that is not the last one,
\* or on a first attempt with retry budget left.
C1_Witness ==
    \E c \in Invocations :
        /\ outcome[c].kind = "error"
        /\ modelIndex[c] < numModels - 1
        /\ attempt[c] < maxRetriesPerModel
        /\ Len(calls[c]) >= 2

\* ---------------------------------------------------------------------- C2
\* C2: a failure classified Fallback on backend i, not the last one, gets no
\* Retry event, is followed at once by the one Fallback event of backend i
\* (failedModelIndex = i, nextModelIndex = i + 1), backend i is not invoked
\* again, and the next backend call, if any, is backend i + 1 at attempt 0
\* with the same operation (doGenerate or doStream).
C2_FallbackAdvances ==
    \A c \in Invocations : \A k \in EventIdx(c) :
        LET ev == events[c][k]
            i == ev.modelIndex
        IN  (IsErrorEvent(ev, "fallback") /\ i < numModels - 1) =>
                /\ EventsFor(c, "retry", ev.error) = {}
                /\ k < Len(events[c])
                /\ events[c][k + 1].type = "fallback"
                /\ events[c][k + 1].error = ev.error
                /\ events[c][k + 1].failedModelIndex = i
                /\ events[c][k + 1].nextModelIndex = i + 1
                /\ FallbacksFrom(c, i) = {k + 1}
                /\ \A n \in CallIdx(c) : n > ev.error.call => calls[c][n].model # i
                /\ Len(calls[c]) > ev.error.call =>
                       calls[c][ev.error.call + 1] =
                           [model |-> i + 1, attempt |-> 0, operation |-> operation[c]]

\* doStream: backend 0 fails with a Fallback failure while a retry is still
\* in its budget, and backend 1 has been invoked.
C2_Witness ==
    \E c \in Invocations :
        /\ operation[c] = "doStream"
        /\ maxRetriesPerModel >= 1
        /\ \E k \in EventIdx(c) :
              /\ IsErrorEvent(events[c][k], "fallback")
              /\ events[c][k].modelIndex = 0
              /\ AttemptOf(c, events[c][k].error) = 0
              /\ Len(calls[c]) > events[c][k].error.call

\* ---------------------------------------------------------------------- C3
\* C3: an invocation that succeeds returns the result of its last backend
\* call, which is the first call that did not fail: every earlier call has
\* its Error event, no event belongs to the successful call, the calls walk
\* the chain in order from backend 0, nothing runs after the success, and a
\* success of the very first call leaves the event log empty.
C3_FirstSuccessReturned ==
    \A c \in Invocations :
        outcome[c].kind = "result" =>
            /\ pc[c] = "done"
            /\ calls[c] # <<>>
            /\ outcome[c].model = calls[c][Len(calls[c])].model
            /\ outcome[c].operation = operation[c]
            /\ outcome[c].operation = calls[c][Len(calls[c])].operation
            /\ calls[c][1].model = 0
            /\ \A n \in CallIdx(c) : n > 1 =>
                   /\ calls[c][n].model >= calls[c][n - 1].model
                   /\ calls[c][n].model <= calls[c][n - 1].model + 1
            /\ \A n \in CallIdx(c) : n < Len(calls[c]) =>
                   \E k \in EventIdx(c) :
                       events[c][k].type = "error" /\ events[c][k].error.call = n
            /\ \A k \in EventIdx(c) : events[c][k].error.call < Len(calls[c])
            /\ Len(calls[c]) = 1 => events[c] = <<>>

\* The third backend succeeds after the first two were abandoned.
C3_Witness ==
    \E c \in Invocations :
        /\ outcome[c].kind = "result"
        /\ outcome[c].model = 2
        /\ Len(calls[c]) >= 3

\* ---------------------------------------------------------------------- C4
\* C4: for a failure classified Retry on attempt a of backend i: when
\* a < maxRetriesPerModel its Error event is followed at once by its one
\* Retry event (attempt = a + 1, maxRetries = the budget), which is in the log
\* when the backoff sleep starts, and the next backend call is backend i at
\* attempt a + 1; when a = maxRetriesPerModel it gets no Retry event, and if i
\* is not the last index the one Fallback event of backend i follows, with
\* totalAttempts = maxRetriesPerModel + 1.
C4_RetryWithinBudget ==
    \A c \in Invocations :
        /\ \A k \in EventIdx(c) :
              LET ev == events[c][k]
                  i == ev.modelIndex
                  a == AttemptOf(c, ev.error)
              IN  IsErrorEvent(ev, "retry") =>
                      /\ a <= maxRetriesPerModel
                      /\ a < maxRetriesPerModel =>
                            /\ k < Len(events[c])
                            /\ events[c][k + 1].type = "retry"
                            /\ events[c][k + 1].error = ev.error
                            /\ events[c][k + 1].modelIndex = i
                            /\ events[c][k + 1].attempt = a + 1
                            /\ events[c][k + 1].maxRetries = maxRetriesPerModel
                            /\ EventsFor(c, "retry", ev.error) = {k + 1}
                            /\ Len(calls[c]) > ev.error.call =>
                                  /\ calls[c][ev.error.call + 1].model = i
                                  /\ calls[c][ev.error.call + 1].attempt = a + 1
                      /\ a = maxRetriesPerModel =>
                            /\ EventsFor(c, "retry", ev.error) = {}
                            /\ i < numModels - 1 =>
                                  /\ k < Len(events[c])
                                  /\ events[c][k + 1].type = "fallback"
                                  /\ events[c][k + 1].error = ev.error
                                  /\ events[c][k + 1].totalAttempts = maxRetriesPerModel + 1
                                  /\ FallbacksFrom(c, i) = {k + 1}
        /\ pc[c] = "sleeping" =>
              /\ events[c] # <<>>
              /\ events[c][Len(events[c])].type = "retry"
              /\ events[c][Len(events[c])].error.call = Len(calls[c])

\* Backend 0 fails with a Retry failure on attempt 0 and again on attempt 1,
\* the last of its budget, and the chain has advanced to backend 1.
C4_Witness ==
    \E c \in Invocations :
        /\ maxRetriesPerModel = 1
        /\ Len(events[c]) >= 4
        /\ IsErrorEvent(events[c][1], "retry")
        /\ events[c][2].type = "retry"
        /\ IsErrorEvent(events[c][3], "retry")
        /\ events[c][4].type = "fallback"
        /\ Len(calls[c]) >= 3

\* ---------------------------------------------------------------------- C5
\* The entries of a failure list that hold the given failure.
EntriesOf(errs, error) == {j \in 1..Len(errs) : errs[j].error = error}

\* Every backend of the chain has failed, and every failure was classified
\* Fallback.
AllFailedWithFallback(c) ==
    /\ \A k \in EventIdx(c) :
          events[c][k].type = "error" => events[c][k].classification = "fallback"
    /\ \A m \in 0..(numModels - 1) :
          \E k \in EventIdx(c) :
              IsErrorEvent(events[c][k], "fallback") /\ events[c][k].modelIndex = m

\* C5: the failure of every Fallback event, and the last failure before an
\* exhaustion, is in the accumulated list exactly once, under the backend
\* that threw it; the list is in chain order; and when all N backends fail
\* with Fallback failures the invocation throws AllModelsExhaustedError with
\* exactly N entries, entry k being the failure of backend k.
C5_FailuresRecordedOnceInOrder ==
    \A c \in Invocations :
        /\ \A k \in EventIdx(c) :
              events[c][k].type = "fallback" =>
                  /\ Cardinality(EntriesOf(errors[c], events[c][k].error)) = 1
                  /\ \A j \in EntriesOf(errors[c], events[c][k].error) :
                         errors[c][j].model = events[c][k].failedModelIndex
        /\ (outcome[c].kind = "AllModelsExhaustedError" /\ events[c] # <<>>) =>
              /\ outcome[c].errors = errors[c]
              /\ Cardinality(EntriesOf(outcome[c].errors,
                                       events[c][Len(events[c])].error)) = 1
        /\ \A j \in 1..Len(errors[c]) :
              /\ errors[c][j].model = errors[c][j].error.thrownBy
              /\ j > 1 => errors[c][j - 1].model <= errors[c][j].model
              /\ j > 1 => errors[c][j - 1].error.call < errors[c][j].error.call
        /\ (created = "ready" /\ AllFailedWithFallback(c)) =>
              /\ pc[c] = "done"
              /\ outcome[c].kind = "AllModelsExhaustedError"
              /\ Len(outcome[c].errors) = numModels
              /\ \A j \in 1..numModels :
                     /\ outcome[c].errors[j].model = j - 1
                     /\ outcome[c].errors[j].error.thrownBy = j - 1
                     /\ IsErrorEvent(events[c][2 * j - 1], "fallback")
                     /\ outcome[c].errors[j].error = events[c][2 * j - 1].error

\* A chain of three, all failing with Fallback failures: exhaustion with
\* three recorded failures and two Fallback events.
C5_Witness ==
    \E c \in Invocations :
        /\ numModels = 3
        /\ AllFailedWithFallback(c)
        /\ outcome[c].kind = "AllModelsExhaustedError"
        /\ Cardinality(FallbacksFrom(c, 0) \cup FallbacksFrom(c, 1)) = 2

\* ---------------------------------------------------------------------- C6
\* C6: for every maxRetriesPerModel >= 0, no backend of the chain appears more
\* than once in the list the AllModelsExhaustedError carries.
C6_OneEntryPerBackend ==
    \A c \in Invocations :
        (outcome[c].kind = "AllModelsExhaustedError" /\ maxRetriesPerModel >= 0) =>
            \A j1, j2 \in 1..Len(outcome[c].errors) :
                outcome[c].errors[j1].model = outcome[c].errors[j2].model => j1 = j2

\* ---------------------------------------------------------------------- C7
\* C7: for every configuration createFallbackModel accepts,
\* AllModelsExhaustedError is thrown only after every backend of the chain has
\* been invoked at least once, none of the calls having succeeded.
C7_ExhaustedOnlyAfterAllTried ==
    \A c \in Invocations :
        outcome[c].kind = "AllModelsExhaustedError" =>
            \A m \in 0..(numModels - 1) :
                \E n \in CallIdx(c) : calls[c][n].model = m

\* ---------------------------------------------------------------------- C8
\* C8: when the signal is already aborted at the call, the invocation fails
\* with the cancellation failure (the signal's reason, or an AbortError if
\* it has none), having invoked no backend and emitted no event.
C8_AbortedAtCall ==
    \A c \in Invocations :
        (pc[c] = "done" /\ abortedAtCall[c]) =>
            /\ outcome[c] = ThrownAbort(abortSignal[c])
            /\ calls[c] = <<>>
            /\ events[c] = <<>>

\* ---------------------------------------------------------------------- C9
\* The Retry and Fallback events of a log.
RetryOrFallback(evs) ==
    {j \in 1..Len(evs) : evs[j].type \in {"retry", "fallback"}}

\* C9: once the signal is aborted, no step of the invocation emits a Retry or
\* a Fallback event or invokes a backend.
C9_NothingAfterAbort ==
    [][\A c \in Invocations :
          abortSignal[c].aborted =>
              /\ RetryOrFallback(events'[c]) = RetryOrFallback(events[c])
              /\ calls'[c] = calls[c]]_vars

\* --------------------------------------------------------------------- C10
\* C10: an invocation that has attempted a backend and ends in failure with
\* the signal aborted never delivers AllModelsExhaustedError.
C10_AbortSupersedesExhaustion ==
    \A c \in Invocations :
        (pc[c] = "done" /\ abortSignal[c].aborted /\ calls[c] # <<>>) =>
            outcome[c].kind # "AllModelsExhaustedError"

\* --------------------------------------------------------------------- C11
\* The Fallback events of a log.
FallbackEvents(c) == {j \in EventIdx(c) : events[c][j].type = "fallback"}

\* C11: every Fallback event has failedModelIndex < models.length - 1 and
\* nextModelIndex = failedModelIndex + 1, no backend index has more than one
\* Fallback event, and an invocation that ends in AllModelsExhaustedError on a
\* chain of length N has emitted exactly N - 1 Fallback events.
C11_FallbackNeverForLast ==
    \A c \in Invocations :
        /\ \A j \in FallbackEvents(c) :
              /\ events[c][j].failedModelIndex < numModels - 1
              /\ events[c][j].nextModelIndex = events[c][j].failedModelIndex + 1
        /\ \A m \in 0..(numModels - 1) : Cardinality(FallbacksFrom(c, m)) <= 1
        /\ outcome[c].kind = "AllModelsExhaustedError" =>
              Cardinality(FallbackEvents(c)) = numModels - 1

\* --------------------------------------------------------------------- C12
\* The Error events of a log.
ErrorEvents(c) == {j \in EventIdx(c) : events[c][j].type = "error"}

\* The backend calls of an invocation that have failed: all of them but one
\* still in flight or one that succeeded.
FailedCalls(c) ==
    Len(calls[c]) - (IF pc[c] = "awaiting" THEN 1 ELSE 0)
                  - (IF outcome[c].kind = "result" THEN 1 ELSE 0)

\* C12: every failed backend call has exactly one Error event, carrying the
\* index of the backend called, the failure that call threw and the
\* classification of that failure; a Retry or Fallback event comes right
\* after the Error event of the same failure, and a failure that is
\* propagated has its Error event in the log; there are as many Error events
\* as failed calls.
C12_OneErrorEventPerFailure ==
    \A c \in Invocations :
        /\ Cardinality(ErrorEvents(c)) = FailedCalls(c)
        /\ \A n \in 1..FailedCalls(c) :
              \E j \in ErrorEvents(c) :
                  /\ events[c][j].error.call = n
                  /\ events[c][j].error.invocation = c
                  /\ events[c][j].error.thrownBy = calls[c][n].model
                  /\ events[c][j].modelIndex = calls[c][n].model
                  /\ events[c][j].classification = defaultShouldRetry(events[c][j].error)
                  /\ \A k \in ErrorEvents(c) : events[c][k].error.call = n => k = j
        /\ \A j \in EventIdx(c) :
              events[c][j].type \in {"retry", "fallback"} =>
                  /\ j > 1
                  /\ events[c][j - 1].type = "error"
                  /\ events[c][j - 1].error = events[c][j].error
        /\ outcome[c].kind = "error" =>
              \E j \in ErrorEvents(c) : events[c][j].error = outcome[c].error
        /\ outcome[c].kind = "AllModelsExhaustedError" =>
              \A k \in 1..Len(outcome[c].errors) :
                  \E j \in ErrorEvents(c) :
                      events[c][j].error = outcome[c].errors[k].error

\* Three failed calls, one followed by a Retry event, one by a Fallback event
\* and one propagated.
C12_Witness ==
    \E c \in Invocations :
        /\ outcome[c].kind = "error"
        /\ Len(calls[c]) = 3
        /\ Cardinality(ErrorEvents(c)) = 3
        /\ \E j \in EventIdx(c) : events[c][j].type = "retry"
        /\ \E j \in EventIdx(c) : events[c][j].type = "fallback"

\* --------------------------------------------------------------------- C13
\* The Attempt Context and the rest of what one invocation owns.
Local(c) ==
    <<abortSignal[c], abortedAtCall[c], operation[c], pc[c], modelIndex[c],
      attempt[c], errors[c], events[c], calls[c], outcome[c], sleepState[c]>>

NonFatalError(ev) == ev.type = "error" /\ ev.classification # "throw"

\* The failure list an invocation accumulates when it runs alone: the
\* failures of its own non-fatal Error events, in order.
OwnFailures(c) ==
    LET caught == SelectSeq(events[c], NonFatalError)
    IN  [k \in 1..Len(caught) |->
            [model |-> caught[k].modelIndex, error |-> caught[k].error]]

\* C13: under every interleaving of two invocations, a step of one leaves
\* everything the other owns unchanged, each invocation's failure list holds
\* exactly the failures it caught itself, its loop variables are those of its
\* own last backend call, and the AllModelsExhaustedError it throws carries
\* its own list.
C13_InvocationsIndependent ==
    /\ [](\A c \in Invocations :
             /\ errors[c] = OwnFailures(c)
             /\ \A k \in 1..Len(errors[c]) : errors[c][k].error.invocation = c
             /\ pc[c] \in {"awaiting", "sleeping"} =>
                    calls[c][Len(calls[c])] =
                        [model |-> modelIndex[c], attempt |-> attempt[c],
                         operation |-> operation[c]]
             /\ outcome[c].kind = "AllModelsExhaustedError" =>
                    /\ outcome[c].errors = OwnFailures(c)
                    /\ \A k \in 1..Len(outcome[c].errors) :
                           outcome[c].errors[k].error.invocation = c)
    /\ [][\A c, d \in Invocations :
             (c # d /\ Local(c)' # Local(c)) => Local(d)' = Local(d)]_vars

\* Invocation 1 has thrown AllModelsExhaustedError with two failures while
\* invocation 2, which has caught a failure of its own, has a call in flight.
C13_Witness ==
    /\ outcome[1].kind = "AllModelsExhaustedError"
    /\ Len(outcome[1].errors) = 2
    /\ pc[2] = "awaiting"
    /\ Len(errors[2]) = 1
    /\ Len(calls[2]) = 2

\* --------------------------------------------------------------- C14, C15
\* The failures the classifier has been applied to, with its answers.
Classified ==
    {[error |-> events[1][k].error, action |-> events[1][k].classification] :
        k \in {j \in 1..Len(events[1]) : events[1][j].type = "error"}}

HasStatus(error, lo, hi) ==
    error.type = "APICallError" /\ error.statusCode >= lo /\ error.statusCode < hi

\* C14: every failure with status 429 is classified Fallback and every
\* failure with a status in [500, 600) is classified Retry, whether its
\* isRetryable flag is set or not; this holds for each failure a backend has
\* thrown and for each the classifier can be given.
C14_RateLimitFallsBackServerErrorRetries ==
    /\ \A cl \in Classified :
          /\ HasStatus(cl.error, 429, 430) => cl.action = "fallback"
          /\ HasStatus(cl.error, 500, 600) => cl.action = "retry"
    /\ \A e \in ClassifierFailures :
          /\ HasStatus(e, 429, 430) => defaultShouldRetry(e) = "fallback"
          /\ HasStatus(e, 500, 600) => defaultShouldRetry(e) = "retry"

\* A retryable 429 has led to a Fallback and a non-retryable 503 to a Retry.
C14_Witness ==
    /\ [error |-> Failure(1, APICallError(503, FALSE), 0, 1), action |-> "retry"]
           \in Classified
    /\ \E cl \in Classified :
           /\ HasStatus(cl.error, 429, 430) /\ cl.error.isRetryable
           /\ cl.action = "fallback"
    /\ \E k \in EventIdx(1) : events[1][k].type = "retry"

\* C15 as stated: every failure with a status in [400, 500) other than 429
\* is classified Throw, whatever its isRetryable flag.
C15_ClientFaultAlwaysThrows ==
    \A cl \in Classified :
        (HasStatus(cl.error, 400, 500) /\ cl.error.statusCode # 429)
            => cl.action = "throw"

\* C15 as the code has it: a failure with a status in [400, 500) other than
\* 429 is classified Throw when its isRetryable flag is not set and Retry
\* when it is set.
C15_ClientFaultThrowsUnlessRetryable ==
    /\ \A cl \in Classified :
          (HasStatus(cl.error, 400, 500) /\ cl.error.statusCode # 429)
              => cl.action = (IF cl.error.isRetryable THEN "retry" ELSE "throw")
    /\ \A e \in ClassifierFailures :
          (HasStatus(e, 400, 500) /\ e.statusCode # 429)
              => defaultShouldRetry(e) = (IF e.isRetryable THEN "retry" ELSE "throw")

\* A retryable 404 was retried and a non-retryable 404 then ended the call.
C15_Witness ==
    /\ outcome[1].kind = "error"
    /\ HasStatus(outcome[1].error, 404, 405) /\ ~outcome[1].error.isRetryable
    /\ \E cl \in Classified :
           /\ HasStatus(cl.error, 404, 405) /\ cl.error.isRetryable
           /\ cl.action = "retry"

\* --------------------------------------------------------------------- C16
CallsOn(c, m) == {k \in CallIdx(c) : calls[c][k].model = m}

RetriesOn(c, m) ==
    {j \in EventIdx(c) : events[c][j].type = "retry" /\ events[c][j].modelIndex = m}

\* C16: in every state of an invocation that has started, no backend has
\* been invoked more than maxRetriesPerModel + 1 times and no backend has
\* more than maxRetriesPerModel Retry events.
C16_AttemptsWithinBudget ==
    \A c \in Invocations : \A m \in 0..(numModels - 1) :
        pc[c] # "idle" =>
           /\ Cardinality(CallsOn(c, m)) <= maxRetriesPerModel + 1
           /\ Cardinality(RetriesOn(c, m)) <= maxRetriesPerModel

\* --------------------------------------------------------------------- C17
\* The backend operations of invocation c that were invoked and have neither
\* resolved nor rejected: every rejection has an Error event, and the one
\* resolution ends the invocation with the result.
InFlight(c) ==
    Len(calls[c]) - Cardinality(ErrorEvents(c))
        - (IF outcome[c].kind = "result" THEN 1 ELSE 0)

\* C17: at most one backend operation is in flight, and one is exactly while
\* the invocation awaits it; the first call is on backend 0; each call is on
\* the backend of the call before it or on the next one in the chain; and
\* once a Fallback event has abandoned a backend, no later call is on it.
C17_OneAtATimeInChainOrder ==
    \A c \in Invocations :
        /\ InFlight(c) \in {0, 1}
        /\ InFlight(c) = 1 <=> pc[c] = "awaiting"
        /\ calls[c] # <<>> => calls[c][1].model = 0
        /\ \A k \in CallIdx(c) :
              /\ calls[c][k].model \in 0..(numModels - 1)
              /\ k > 1 => calls[c][k].model - calls[c][k - 1].model \in {0, 1}
        /\ \A j \in FallbackEvents(c) : \A k \in CallIdx(c) :
              k > events[c][j].error.call
                  => calls[c][k].model > events[c][j].failedModelIndex

\* Backend 0 was retried and abandoned, backend 1 abandoned, and a call on
\* backend 2 is in flight.
C17_Witness ==
    /\ pc[1] = "awaiting"
    /\ Len(calls[1]) = 4
    /\ calls[1][2].model = 0
    /\ calls[1][3].model = 1
    /\ calls[1][4].model = 2
    /\ Cardinality(FallbackEvents(1)) = 2

\* --------------------------------------------------------------------- C18
\* min(cap, base * 2^n)
Exponential(n, base, cap) == Min(cap, base * Pow2(n))

\* delay lies in [0.5 * min(cap, base * 2^n), min(cap, base * 2^n)] and does
\* not exceed cap.
InJitterInterval(delay, n, base, cap) ==
    /\ 2 * delay >= Exponential(n, base, cap)
    /\ delay <= Exponential(n, base, cap)
    /\ delay <= cap

RetryEvents(c) == {j \in EventIdx(c) : events[c][j].type = "retry"}

\* calculateDelay applied to the delays the composite model was given, for
\* every attempt number and every draw of Math.random().
ConfiguredDelaysInInterval ==
    \A n \in 0..MaxBackoffRetries, random \in 0..(RandomDen - 1) :
        InJitterInterval(calculateDelay(n, baseDelayMs, maxDelayMs, random),
                         n, baseDelayMs, maxDelayMs)

\* C18 as stated: for every base and cap, the delay of every Retry event, and
\* of every call of calculateDelay with n >= 0 and a draw in [0, 1), lies in
\* the interval and does not exceed the cap.
C18_DelayInIntervalForAll ==
    /\ \A j \in RetryEvents(1) :
          InJitterInterval(events[1][j].delayMs, events[1][j].attempt - 1,
                           baseDelayMs, maxDelayMs)
    /\ created = "ready" => ConfiguredDelaysInInterval

\* C18 as the code has it: the same for every base >= 0 and cap >= 0 that are
\* whole numbers of milliseconds.
C18_DelayInIntervalForNonNegative ==
    (baseDelayMs >= 0 /\ maxDelayMs >= 0) =>
        /\ \A j \in RetryEvents(1) :
              InJitterInterval(events[1][j].delayMs, events[1][j].attempt - 1,
                               baseDelayMs, maxDelayMs)
        /\ ConfiguredDelaysInInterval

\* With base 3 and cap 5, the retry after attempt 0 slept 2 ms (half of 3,
\* rounded) and the retry after attempt 1, where the cap binds, slept 4 ms.
C18_Witness ==
    /\ baseDelayMs = 3 /\ maxDelayMs = 5
    /\ \E j, k \in RetryEvents(1) :
          /\ events[1][j].attempt = 1 /\ events[1][j].delayMs = 2
          /\ events[1][k].attempt = 2 /\ events[1][k].delayMs = 4

\* --------------------------------------------------------------------- C19
\* A sleep in progress: its timer armed, its listener registered, its
\* promise not settled.
Pending == [timers |-> 1, listeners |-> 1, settles |-> 0, result |-> "pending"]

\* A sleep whose promise has settled once with the given result, with no
\* timer pending and no listener registered.
Settled(result) ==
    [timers |-> 0, listeners |-> 0, settles |-> 1, result |-> result]

\* Invocation c calls sleep in this step: the call follows the Retry event.
CallsSleep(c) == Cardinality(RetryEvents(c))' = Cardinality(RetryEvents(c)) + 1

\* C19: the promise of a sleep never settles twice; while the invocation
\* sleeps the signal is not aborted and exactly one timer and one listener
\* exist; at any other time no timer is pending and no listener registered;
\* and a rejected sleep means an aborted signal.  A sleep called with the
\* signal aborted rejects without arming a timer, an abort during the sleep
\* rejects it and clears the timer, and it resolves only in the step in which
\* its timer fires, which removes the listener.
C19_SleepSettlesOnce ==
    /\ [](\A c \in Invocations :
             /\ sleepState[c].settles <= 1
             /\ pc[c] = "sleeping" =>
                    sleepState[c] = Pending /\ ~abortSignal[c].aborted
             /\ pc[c] # "sleeping" =>
                    sleepState[c] \in {NoSleep, Settled("resolved"), Settled("rejected")}
             /\ sleepState[c].result = "rejected" =>
                    abortSignal[c].aborted /\ outcome[c].kind = "abort")
    /\ [][\A c \in Invocations :
             /\ (CallsSleep(c) /\ abortSignal[c].aborted) =>
                    sleepState'[c] = Settled("rejected")
             /\ (CallsSleep(c) /\ ~abortSignal[c].aborted) =>
                    sleepState'[c] = Pending
             /\ (pc[c] = "sleeping" /\ abortSignal'[c].aborted) =>
                    sleepState'[c] = Settled("rejected")
             /\ (sleepState[c] # sleepState'[c]
                     /\ sleepState'[c].result = "resolved") =>
                    /\ sleepState[c] = Pending
                    /\ sleepState'[c] = Settled("resolved")
                    /\ ~abortSignal'[c].aborted]_vars

\* A first sleep resolved when its timer fired (the retry on backend 0 was
\* made), and a second sleep, on backend 1, was rejected by an abort.
C19_Witness ==
    /\ outcome[1].kind = "abort"
    /\ sleepState[1] = Settled("rejected")
    /\ Cardinality(RetryEvents(1)) = 2
    /\ Len(calls[1]) = 3
    /\ calls[1][2] = [model |-> 0, attempt |-> 1, operation |-> operation[1]]

\* --------------------------------------------------------------------- C20
\* The ways an invocation ends: a backend's result, the raw failure
\* classified Throw, the abort reason, or AllModelsExhaustedError.
TerminalOutcomes == {"result", "error", "abort", "AllModelsExhaustedError"}

\* C20: an invocation that has started eventually ends; when it has ended it
\* has one of the four terminal outcomes, which no later step changes; and
\* at no time has it invoked more than
\* models.length * (maxRetriesPerModel + 1) backend operations.
C20_TerminatesWithinBudget ==
    /\ \A c \in Single : (pc[c] \in {"awaiting", "sleeping"}) ~> (pc[c] = "done")
    /\ [](\A c \in Invocations :
             /\ pc[c] = "done" <=> outcome[c].kind \in TerminalOutcomes
             /\ pc[c] # "done" => outcome[c] = NoOutcome
             /\ Len(calls[c]) <= numModels * (maxRetriesPerModel + 1))
    /\ [][\A c \in Invocations :
             pc[c] = "done" =>
                 /\ pc'[c] = "done"
                 /\ outcome'[c] = outcome[c]
                 /\ calls'[c] = calls[c]]_vars

\* The invocation ended in AllModelsExhaustedError having used its whole
\* budget of 3 * (1 + 1) backend calls.
C20_Witness ==
    /\ numModels = 3 /\ maxRetriesPerModel = 1
    /\ pc[1] = "done"
    /\ outcome[1].kind = "AllModelsExhaustedError"
    /\ Len(calls[1]) = 6

====
